---- MODULE Spec2Model ----
(***************************************************************************)
(* Heuristic AHRS estimator (ahrs/ahrs_heuristic.go).                      *)
(*                                                                         *)
(* A float64 is modelled as a fixed-point number: the integer k stands for *)
(* the real k / Unit, and three values outside the finite range stand for  *)
(* NaN, +Inf and -Inf with the IEEE-754 rules for them.  Signed zeros are  *)
(* identified, as Go's == identifies them; no divisor of the code can be   *)
(* -0 (they are square roots, differences of equal numbers, or G).         *)
(***************************************************************************)
EXTENDS Integers, Sequences, FiniteSets, TLC

Unit == 1000
MaxCalls == 3

(***************************************************************************)
(* float64                                                                 *)
(***************************************************************************)
PInf == 2^30
NInf == -(2^30)
NaN == 2^30 + 1

IsNaN(x) == x = NaN
IsInf(x) == x = PInf \/ x = NInf
IsFinite(x) == ~IsNaN(x) /\ ~IsInf(x)

\* the sign of a value that is not NaN
Sgn(x) == IF x > 0 THEN 1 ELSE IF x < 0 THEN -1 ELSE 0

\* a / b rounded to the nearest integer, b > 0
Round(a, b) == IF a >= 0 THEN (2 * a + b) \div (2 * b)
               ELSE -((2 * (-a) + b) \div (2 * b))

Neg(x) == IF IsNaN(x) THEN NaN
          ELSE IF x = PInf THEN NInf
          ELSE IF x = NInf THEN PInf
          ELSE -x

Add(x, y) == IF IsNaN(x) \/ IsNaN(y) THEN NaN
             ELSE IF IsInf(x) /\ IsInf(y) THEN (IF x = y THEN x ELSE NaN)
             ELSE IF IsInf(x) THEN x
             ELSE IF IsInf(y) THEN y
             ELSE x + y

Sub(x, y) == Add(x, Neg(y))

Mul(x, y) == IF IsNaN(x) \/ IsNaN(y) THEN NaN
             ELSE IF IsInf(x) \/ IsInf(y)
                  THEN (IF x = 0 \/ y = 0 THEN NaN
                        ELSE IF Sgn(x) * Sgn(y) > 0 THEN PInf ELSE NInf)
             ELSE Round(x * y, Unit)

Div(x, y) == IF IsNaN(x) \/ IsNaN(y) THEN NaN
             ELSE IF IsInf(x) /\ IsInf(y) THEN NaN
             ELSE IF IsInf(x) THEN (IF y >= 0 THEN x ELSE Neg(x))
             ELSE IF IsInf(y) THEN 0
             ELSE IF y = 0 THEN (IF x = 0 THEN NaN
                                 ELSE IF x > 0 THEN PInf ELSE NInf)
             ELSE IF y > 0 THEN Round(x * Unit, y)
             ELSE Round((-x) * Unit, -y)

RECURSIVE SqrtSearch(_, _, _)
\* the largest r in lo..hi with r * r <= k
SqrtSearch(k, lo, hi) ==
    IF lo >= hi THEN lo
    ELSE LET mid == (lo + hi + 1) \div 2
         IN  IF mid * mid <= k THEN SqrtSearch(k, mid, hi)
             ELSE SqrtSearch(k, lo, mid - 1)

\* r, the integer part of the square root of k, rounded to the nearest integer
SqrtRound(k, r) == IF k - r * r > r THEN r + 1 ELSE r

\* math.Sqrt
Sqrt(x) == IF IsNaN(x) \/ x < 0 THEN NaN
           ELSE IF x = PInf THEN PInf
           ELSE SqrtRound(x * Unit, SqrtSearch(x * Unit, 0, 46340))

\* math.Acos.  An angle of [0, pi] is represented by its cosine; the result
\* is NaN outside [-1, 1].
Acos(x) == IF IsNaN(x) \/ x > Unit \/ x < -Unit THEN NaN ELSE x

\* math.Cos(alpha / 2) for alpha in [0, pi]: sqrt((1 + cos alpha) / 2)
CosHalf(alpha) == IF IsNaN(alpha) THEN NaN ELSE Sqrt(Round(Unit + alpha, 2))

\* math.Sin(alpha / 2) for alpha in [0, pi]: sqrt((1 - cos alpha) / 2)
SinHalf(alpha) == IF IsNaN(alpha) THEN NaN ELSE Sqrt(Round(Unit - alpha, 2))

Dot(a, b) == Add(Add(Mul(a[1], b[1]), Mul(a[2], b[2])), Mul(a[3], b[3]))

Norm(a) == Sqrt(Dot(a, a))

Sum4(a, b, c, d) == Add(Add(Add(a, b), c), d)

Norm4(q) == Sqrt(Sum4(Mul(q[1], q[1]), Mul(q[2], q[2]), Mul(q[3], q[3]), Mul(q[4], q[4])))

FiniteVec(a) == \A i \in DOMAIN a : IsFinite(a[i])

(***************************************************************************)
(* Constants                                                               *)
(***************************************************************************)
KSHORT == Unit \div 5

\* acceleration of gravity in the velocity unit per second (9.8)
G == (98 * Unit) \div 10

(***************************************************************************)
(* State                                                                   *)
(***************************************************************************)
VARIABLES
    s,      \* the estimator (a HeuristicState, with the fields of State it uses)
    m,      \* the Measurement of the last Compute call
    n,      \* the number of Compute calls made
    prev,   \* the estimator as it was on entry to the last Compute call
    r       \* a second estimator, fed the same samples under SpecReplay

vars == <<s, m, n, prev, r>>

\* new(HeuristicState): every field is zero
Zero == [E0 |-> 0, E1 |-> 0, E2 |-> 0, E3 |-> 0,
         e11 |-> 0, e12 |-> 0, e13 |-> 0,
         e21 |-> 0, e22 |-> 0, e23 |-> 0,
         e31 |-> 0, e32 |-> 0, e33 |-> 0,
         N1 |-> 0, N2 |-> 0, N3 |-> 0, T |-> 0,
         Z1 |-> 0, Z2 |-> 0, Z3 |-> 0,
         W10 |-> 0, W20 |-> 0, W30 |-> 0,
         W1S |-> 0, W2S |-> 0, W3S |-> 0]

\* a constructor that reads its argument
InitFromSample(m0) == [Zero EXCEPT !.T = m0.T]

InitializeHeuristic(m0) == Zero

Measurement(T, W, WValid, A, M, MValid) ==
    [T |-> T, W1 |-> W[1], W2 |-> W[2], W3 |-> W[3], WValid |-> WValid,
     A1 |-> A[1], A2 |-> A[2], A3 |-> A[3],
     M1 |-> M[1], M2 |-> M[2], M3 |-> M[3], MValid |-> MValid]

(***************************************************************************)
(* Compute, stage 1: velocity / acceleration smoothing                     *)
(***************************************************************************)
\* KSHORT * w + (1 - KSHORT) * avg
Average(w, avg) == Add(Mul(KSHORT, w), Mul(Unit - KSHORT, avg))

\* the finite difference alone, without the accumulated term
AccelNoMemory(w, w0, dt, z) == Div(Div(Mul(KSHORT, Sub(w, w0)), dt), G)

\* KSHORT * (w - w0) / (m.T - s.T) / G + (1 - KSHORT) * z
Accel(w, w0, dt, z) ==
    Add(Div(Div(Mul(KSHORT, Sub(w, w0)), dt), G), Mul(Unit - KSHORT, z))

Startup(st) == st.W10 = 0 /\ st.W20 = 0 /\ st.W30 = 0

\* Startup: W10, W20, W30 take the sample's velocity
Seed(st, ms) ==
    IF Startup(st)
    THEN [st EXCEPT !.W10 = ms.W1, !.W20 = ms.W2, !.W30 = ms.W3]
    ELSE st

\* the moving averages and the accelerations, from the seeded state
Filter(st, ms, dt) ==
    [st EXCEPT !.W1S = Average(ms.W1, st.W1S),
               !.W2S = Average(ms.W2, st.W2S),
               !.W3S = Average(ms.W3, st.W3S),
               !.Z1 = Accel(ms.W1, st.W10, dt, st.Z1),
               !.Z2 = Accel(ms.W2, st.W20, dt, st.Z2),
               !.Z3 = Accel(ms.W3, st.W30, dt, st.Z3)]

SmoothValid(st, ms) == Filter(Seed(st, ms), ms, Sub(ms.T, st.T))

\* a reset that clears the velocity memory and leaves Z alone
SmoothInvalidKeepZ(st, ms) ==
    [st EXCEPT !.W10 = 0, !.W20 = 0, !.W30 = 0,
               !.W1S = 0, !.W2S = 0, !.W3S = 0]

SmoothInvalid(st, ms) ==
    [st EXCEPT !.W10 = 0, !.W20 = 0, !.W30 = 0,
               !.W1S = 0, !.W2S = 0, !.W3S = 0,
               !.Z1 = 0, !.Z2 = 0, !.Z3 = 0]

Smooth(st, ms) == IF ms.WValid THEN SmoothValid(st, ms) ELSE SmoothInvalid(st, ms)

(***************************************************************************)
(* Compute, stage 2: gravity alignment                                     *)
(***************************************************************************)
Vec(x, y, z) == <<x, y, z>>

\* apparent gravity in the earth frame
Ae(st) == Vec(Neg(st.Z1), Neg(st.Z2), Sub(Neg(st.Z3), Unit))

Acc(ms) == Vec(ms.A1, ms.A2, ms.A3)

Cross(a, b) == Vec(Sub(Mul(a[2], b[3]), Mul(a[3], b[2])),
                   Sub(Mul(a[3], b[1]), Mul(a[1], b[3])),
                   Sub(Mul(a[1], b[2]), Mul(a[2], b[1])))

Scale(a, d) == [i \in DOMAIN a |-> Div(a[i], d)]

\* the minimal rotation taking the direction of a onto the direction of b:
\* (1 + a.b, a x b) of the unit vectors, normalized
QuaternionOfUnit(ua, ub) == <<Add(Unit, Dot(ua, ub))>> \o Cross(ua, ub)

Normalize4(q) == Scale(q, Norm4(q))

QuaternionAToB(a, b) ==
    Normalize4(QuaternionOfUnit(Scale(a, Norm(a)), Scale(b, Norm(b))))

(***************************************************************************)
(* Compute, stage 3: heading ambiguity.  A quaternion <<q0, q1, q2, q3>>   *)
(* is a 4-tuple, so q0 is q[1] and q3 is q[4].                             *)
(***************************************************************************)
\* reference heading: the smoothed GPS track, or north
We(st, ms) ==
    IF ms.WValid
    THEN Scale(Vec(st.W1S, st.W2S, st.W3S), Norm(Vec(st.W1S, st.W2S, st.W3S)))
    ELSE Vec(0, Unit, 0)

\* sensor forward direction in the earth frame
Xe(q) == Vec(Sub(Unit, Mul(2 * Unit, Add(Mul(q[4], q[4]), Mul(q[3], q[3])))),
             Mul(2 * Unit, Add(Mul(q[1], q[4]), Mul(q[2], q[3]))),
             Mul(2 * Unit, Sub(Mul(q[2], q[4]), Mul(q[1], q[3]))))

\* u: perpendicular to ae and xe, divided by uu
Normalize(u) == Scale(u, Norm(u))

U(ae, xe) == Normalize(Cross(ae, xe))

\* vv: the divisor of v, taken from the components of u after u /= uu
VV(u) == Sqrt(Dot(u, u))

\* v: perpendicular to ae and we, divided by vv
V(ae, we, u) == Scale(Cross(ae, we), VV(u))

Alpha(u, v) == Acos(Dot(u, v))

\* rotation by alpha about ae
AxisAngle(p0, sa, ae) == <<p0, Mul(sa, ae[1]), Mul(sa, ae[2]), Mul(sa, ae[3])>>

P(alpha, ae) == AxisAngle(CosHalf(alpha), SinHalf(alpha), ae)

\* the four assignments to s.E0 .. s.E3
Compose(p, q) ==
    <<Sum4(Mul(p[1], q[1]), Neg(Mul(p[2], q[2])), Neg(Mul(p[3], p[3])), Neg(Mul(p[4], q[4]))),
      Sum4(Mul(p[1], q[2]), Mul(p[2], q[1]), Mul(p[3], q[4]), Neg(Mul(p[4], q[3]))),
      Sum4(Mul(p[1], q[3]), Neg(Mul(p[2], q[4])), Mul(p[3], q[1]), Mul(p[4], q[2])),
      Sum4(Mul(p[1], q[4]), Mul(p[2], q[3]), Neg(Mul(p[3], q[2])), Mul(p[4], q[1]))>>

\* the intermediate values of a call, from the state the smoothing stage left
QOf(st, ms) == QuaternionAToB(Ae(st), Acc(ms))
UOf(st, ms) == U(Ae(st), Xe(QOf(st, ms)))
VOf(st, ms) == V(Ae(st), We(st, ms), UOf(st, ms))
POf(st, ms) == P(Alpha(UOf(st, ms), VOf(st, ms)), Ae(st))

\* p, from ae, the normalized u and we
Correction(ae, u, we) == P(Alpha(u, V(ae, we, u)), ae)

\* E, from ae, q and we
Heading(ae, q, we) == Compose(Correction(ae, U(ae, Xe(q)), we), q)

SetE(st, E) == [st EXCEPT !.E0 = E[1], !.E1 = E[2], !.E2 = E[3], !.E3 = E[4]]

Orient(st, ms) ==
    SetE(st, Heading(Ae(st), QuaternionAToB(Ae(st), Acc(ms)), We(st, ms)))

(***************************************************************************)
(* Compute, stage 4: bookkeeping and magnetic projection                   *)
(***************************************************************************)
\* bookkeeping that keeps the reset velocity memory of an invalid sample
SaveSampleIfValid(st, ms) ==
    IF ms.WValid
    THEN [st EXCEPT !.W10 = ms.W1, !.W20 = ms.W2, !.W30 = ms.W3, !.T = ms.T]
    ELSE [st EXCEPT !.T = ms.T]

SaveSample(st, ms) ==
    [st EXCEPT !.W10 = ms.W1, !.W20 = ms.W2, !.W30 = ms.W3, !.T = ms.T]

Row(a, b, c, ms) == Add(Add(Mul(ms.M1, a), Mul(ms.M2, b)), Mul(ms.M3, c))

\* the magnetometer vector multiplied by rotation-matrix elements e
Projection(e, ms) == Vec(Row(e.e11, e.e12, e.e13, ms),
                         Row(e.e21, e.e22, e.e23, ms),
                         Row(e.e31, e.e32, e.e33, ms))

SetN(st, N) == [st EXCEPT !.N1 = N[1], !.N2 = N[2], !.N3 = N[3]]

\* a projection that ignores MValid
ProjectAlways(st, ms) == SetN(st, Projection(st, ms))

Project(st, ms) == IF ms.MValid THEN SetN(st, Projection(st, ms)) ELSE st

ComputeState(st, ms) == Project(SaveSample(Orient(Smooth(st, ms), ms), ms), ms)

(***************************************************************************)
(* The rotation-matrix elements of the shared orientation state            *)
(***************************************************************************)
RotationMatrix(E) ==
    LET sq(a, b) == Sub(Unit, Mul(2 * Unit, Add(Mul(a, a), Mul(b, b))))
        pr(a, b, c, d) == Mul(2 * Unit, Add(Mul(a, b), Mul(c, d)))
        df(a, b, c, d) == Mul(2 * Unit, Sub(Mul(a, b), Mul(c, d)))
    IN  [e11 |-> sq(E[3], E[4]), e12 |-> df(E[2], E[3], E[1], E[4]), e13 |-> pr(E[2], E[4], E[1], E[3]),
         e21 |-> pr(E[1], E[4], E[2], E[3]), e22 |-> sq(E[2], E[4]), e23 |-> df(E[3], E[4], E[1], E[2]),
         e31 |-> df(E[2], E[4], E[1], E[3]), e32 |-> pr(E[3], E[4], E[1], E[2]), e33 |-> sq(E[2], E[3])]

Quat(st) == <<st.E0, st.E1, st.E2, st.E3>>

SetElements(st, R) ==
    [st EXCEPT !.e11 = R.e11, !.e12 = R.e12, !.e13 = R.e13,
               !.e21 = R.e21, !.e22 = R.e22, !.e23 = R.e23,
               !.e31 = R.e31, !.e32 = R.e32, !.e33 = R.e33]

SetRotationMatrix(st) == SetElements(st, RotationMatrix(Quat(st)))

(***************************************************************************)
(* Inputs                                                                  *)
(***************************************************************************)
Velocities == {Vec(0, 0, 0), Vec(6 * Unit, 8 * Unit, 0), Vec(0, 5 * Unit, -5 * Unit)}

\* the accelerometer reading of a vehicle pitched by 37 degrees
Accelerations == {Vec((3 * Unit) \div 5, 0, -((4 * Unit) \div 5))}

Magnetic == Vec((3 * Unit) \div 5, 0, (4 * Unit) \div 5)

\* the host's clock: the next sample is one second later, or repeats the time
Times(st) == {st.T, st.T + Unit}

Samples(st) ==
    {Measurement(T, W, wv, A, Magnetic, mv) :
        T \in Times(st), W \in Velocities, wv \in BOOLEAN,
        A \in Accelerations, mv \in BOOLEAN}

NoSample == Measurement(0, Vec(0, 0, 0), FALSE, Vec(0, 0, 0), Vec(0, 0, 0), FALSE)

(***************************************************************************)
(* Specification of one estimator                                          *)
(***************************************************************************)
Init == /\ s = InitializeHeuristic(NoSample)
        /\ r = InitializeHeuristic(NoSample)
        /\ m = NoSample
        /\ n = 0
        /\ prev = s

Compute == /\ n < MaxCalls
           /\ \E ms \in Samples(s) :
                 /\ s' = ComputeState(s, ms)
                 /\ m' = ms
           /\ prev' = s
           /\ n' = n + 1
           /\ UNCHANGED r

CalcRotationMatrix == /\ n > 0
                      /\ s' = SetRotationMatrix(s)
                      /\ s' # s
                      /\ UNCHANGED <<m, n, prev, r>>

Next == Compute \/ CalcRotationMatrix

Spec == Init /\ [][Next]_vars

(***************************************************************************)
(* Two estimators replaying one sequence of samples                        *)
(***************************************************************************)
\* the samples the two constructors are given
FirstSamples ==
    {Measurement(T, W, TRUE, A, Magnetic, TRUE) :
        T \in {0, Unit}, W \in Velocities, A \in Accelerations}

InitReplay == /\ \E ma \in FirstSamples, mb \in FirstSamples :
                    /\ s = InitializeHeuristic(ma)
                    /\ r = InitializeHeuristic(mb)
              /\ m = NoSample
              /\ n = 0
              /\ prev = s

ComputeBoth == /\ n < MaxCalls
               /\ \E ms \in Samples(s) :
                     /\ s' = ComputeState(s, ms)
                     /\ r' = ComputeState(r, ms)
                     /\ m' = ms
               /\ prev' = s
               /\ n' = n + 1

NextReplay == ComputeBoth

SpecReplay == InitReplay /\ [][NextReplay]_vars

(***************************************************************************)
(* Properties                                                              *)
(***************************************************************************)
Eps == Unit \div 50

Abs(x) == IF x < 0 THEN -x ELSE x

\* equal, or finite and within Eps of each other
Close(x, y) == x = y \/ (IsFinite(x) /\ IsFinite(y) /\ Abs(x - y) <= Eps)

ZOf(st) == Vec(st.Z1, st.Z2, st.Z3)
WSOf(st) == Vec(st.W1S, st.W2S, st.W3S)
W0Of(st) == Vec(st.W10, st.W20, st.W30)
NOf(st) == Vec(st.N1, st.N2, st.N3)
ZeroVec == Vec(0, 0, 0)

NonFiniteZ(st) == ~FiniteVec(ZOf(st))

FiniteSample(ms) ==
    FiniteVec(<<ms.T, ms.W1, ms.W2, ms.W3, ms.A1, ms.A2, ms.A3, ms.M1, ms.M2, ms.M3>>)

\* the standard Hamilton product p (x) q
Hamilton(p, q) ==
    <<Sum4(Mul(p[1], q[1]), Neg(Mul(p[2], q[2])), Neg(Mul(p[3], q[3])), Neg(Mul(p[4], q[4]))),
      Sum4(Mul(p[1], q[2]), Mul(p[2], q[1]), Mul(p[3], q[4]), Neg(Mul(p[4], q[3]))),
      Sum4(Mul(p[1], q[3]), Neg(Mul(p[2], q[4])), Mul(p[3], q[1]), Mul(p[4], q[2])),
      Sum4(Mul(p[1], q[4]), Mul(p[2], q[3]), Neg(Mul(p[3], q[2])), Mul(p[4], q[1]))>>

\* C1: after a Compute call whose sample has WValid = false, Z1..Z3 and
\* W1S..W3S are all exactly zero, whatever they held before (NaN and
\* Infinity included): both groups are cleared by the same call.
C1_ResetOnInvalid ==
    (n >= 1 /\ ~m.WValid) => (ZOf(s) = ZeroVec /\ WSOf(s) = ZeroVec)

\* a call with WValid = false has cleared a NaN in Z and a nonzero average
C1_Witness ==
    /\ n >= 1 /\ ~m.WValid
    /\ IsNaN(prev.Z1) /\ prev.W1S # 0
    /\ ZOf(s) = ZeroVec /\ WSOf(s) = ZeroVec

\* C2: after every Compute call, E is the Hamilton product p (x) q of the
\* heading-correction quaternion p and the gravity-alignment quaternion q of
\* that call, in all four components.
C2_HamiltonProduct ==
    n >= 1 => Quat(s) = Hamilton(POf(s, m), QOf(s, m))

\* C3: the first Compute call with WValid = true after a call with
\* WValid = false, at a strictly larger timestamp, leaves Z1..Z3 exactly
\* zero, whatever velocities the two samples carry.
C3_NoSpikeOnRestart ==
    [][(n >= 1 /\ n' = n + 1 /\ ~m.WValid /\ m'.WValid /\ m'.T > m.T)
          => ZOf(s') = ZeroVec]_vars

\* the inputs of the last call are well conditioned: every timestamp so far
\* was strictly larger than the one before (each call adds Unit or nothing
\* to T), and ae, q, we, u and v are finite with ae x xe and ae x we nonzero
WellConditioned ==
    /\ s.T = n * Unit
    /\ FiniteVec(Ae(s)) /\ FiniteVec(QOf(s, m)) /\ FiniteVec(We(s, m))
    /\ FiniteVec(UOf(s, m)) /\ FiniteVec(VOf(s, m))
    /\ Norm(Cross(Ae(s), Xe(QOf(s, m)))) > Eps
    /\ Norm(Cross(Ae(s), We(s, m))) > Eps

\* C4: after every Compute call of a sequence with well-conditioned inputs,
\* the norm of (E0, E1, E2, E3) is within Eps of 1.
C4_UnitNorm ==
    (n >= 1 /\ WellConditioned) => Close(Norm4(Quat(s)), Unit)

\* C5: when MValid is true, the N1..N3 written by Compute is the
\* magnetometer vector multiplied by the rotation-matrix elements of the E
\* that the same call computed.
C5_NorthFromCurrentE ==
    (n >= 1 /\ m.MValid)
        => NOf(s) = Projection(RotationMatrix(Quat(s)), m)

\* C6: the divisor Compute applies to v = ae x we is the magnitude of v's own
\* un-normalized components (within Eps).
C6_OwnMagnitude ==
    (n >= 1 /\ WellConditioned)
        => Close(VV(UOf(s, m)), Norm(Cross(Ae(s), We(s, m))))

\* C7: when Z holds a non-finite value on entry to a Compute call, a sample
\* with WValid = true leaves Z non-finite, and a sample with WValid = false
\* leaves Z and W1S..W3S exactly zero and, if the sample's fields are finite,
\* Z, W1S..W3S and W10..W30 all finite.
C7_CorruptionUntilReset ==
    (n >= 1 /\ NonFiniteZ(prev))
        => IF m.WValid
           THEN NonFiniteZ(s)
           ELSE /\ ZOf(s) = ZeroVec /\ WSOf(s) = ZeroVec
                /\ FiniteSample(m) => FiniteVec(ZOf(s) \o WSOf(s) \o W0Of(s))

\* a repeated timestamp left an infinite Z1, and the sample of the last call,
\* finite and with WValid = false, cleared it
C7_Witness ==
    /\ n >= 2 /\ IsInf(prev.Z1)
    /\ ~m.WValid /\ FiniteSample(m)
    /\ ZOf(s) = ZeroVec /\ FiniteVec(W0Of(s)) /\ s.W10 # 0

C9_SkipProjection ==
    (n >= 1 /\ ~m.MValid) => NOf(s) = NOf(prev)

\* a call with MValid = false kept a nonzero north vector that the projection
\* would have replaced
C9_Witness ==
    /\ n >= 1 /\ ~m.MValid
    /\ NOf(s) = NOf(prev) /\ FiniteVec(NOf(s)) /\ NOf(s) # ZeroVec
    /\ FiniteVec(Projection(s, m)) /\ Projection(s, m) # NOf(s)

\* C10: after every Compute call, W10, W20, W30 are the sample's W1, W2, W3
\* and T is the sample's timestamp, whatever WValid and MValid are.
C10_SampleSaved ==
    n >= 1 => (W0Of(s) = Vec(m.W1, m.W2, m.W3) /\ s.T = m.T)

\* a sample with WValid = false and a nonzero velocity was saved
C10_Witness ==
    /\ n >= 1 /\ ~m.WValid /\ ~m.MValid
    /\ m.W1 # 0 /\ s.W10 = m.W1 /\ s.T = m.T /\ s.T > prev.T

====
